---- MODULE Spec2Model ----
(***************************************************************************)
(* Model of opl_system_portal.py: the Ontario Public Library System portal. *)
(* The merged table (a pandas DataFrame with the hierarchical index         *)
(* Library Full Name / Library Number / Year) is a sequence of records in   *)
(* index order; text is a sequence of one-character strings; a missing      *)
(* cell (NaN) is NaN for a count, NaNText for a text cell and NaNF for a    *)
(* float.  Floats are exact fractions [n, d] in lowest terms, with          *)
(* d = 0 for the two IEEE specials inf (n = 1) and NaN (n = 0); rounding    *)
(* of the float division is not modelled.                                   *)
(***************************************************************************)
EXTENDS Integers, Sequences, FiniteSets, TLC

VARIABLES sources,   \* the rows of the three yearly spreadsheets
          data,      \* LibraryPortal.__data, <<>> before main() has built it
          stack,     \* the Python call stack, innermost frame last
          pc,        \* where the innermost frame stands (the prompt it blocks on)
          input,     \* the last line read from the terminal
          out,       \* the last message printed
          shown,     \* the branch card last printed by print_branch_info
          listed,    \* the list last printed by print_nearby_branches
          located,   \* the sequence last computed by library_locator
          report     \* the archive report last printed by access_archives

vars == <<sources, data, stack, pc, input, out, shown, listed, located, report>>

----------------------------------------------------------------------------
(* Bounds of the model *)

\* largest count (titles held, cardholders) a spreadsheet cell takes
MaxCount == 2
\* largest number of frames the modelled call stack may hold
MaxDepth == 7
\* longest text typed at the postal-code prompt
MaxPostalLen == 7
\* longest library name of the name universe
MaxNameLen == 3

----------------------------------------------------------------------------
(* Text: characters, str.upper, str.title, int() *)

Lowers == <<"a", "b", "k", "m", "x">>
Uppers == <<"A", "B", "K", "M", "X">>
Digits == <<"0", "1", "2", "3", "4", "5", "6", "7", "8", "9">>

Range(s) == {s[i] : i \in 1..Len(s)}
IndexOf(s, c) == CHOOSE i \in 1..Len(s) : s[i] = c

IsLower(c) == c \in Range(Lowers)
IsUpper(c) == c \in Range(Uppers)
IsLetter(c) == IsLower(c) \/ IsUpper(c)
IsDigit(c) == c \in Range(Digits)

\* code points, for the lexicographic order of index keys
UpperOrd == <<65, 66, 75, 77, 88>>
ord(c) == IF c = " " THEN 32
          ELSE IF c = "-" THEN 45
          ELSE IF IsDigit(c) THEN 47 + IndexOf(Digits, c)
          ELSE IF IsUpper(c) THEN UpperOrd[IndexOf(Uppers, c)]
          ELSE UpperOrd[IndexOf(Lowers, c)] + 32

upper_char(c) == IF IsLower(c) THEN Uppers[IndexOf(Lowers, c)] ELSE c
lower_char(c) == IF IsUpper(c) THEN Lowers[IndexOf(Uppers, c)] ELSE c

\* str.upper()
str_upper(s) == [i \in 1..Len(s) |-> upper_char(s[i])]

\* str.title(): a cased character is uppercased when it follows an uncased
\* one (or starts the text) and lowercased when it follows a cased one
str_title(s) ==
    [i \in 1..Len(s) |->
        LET prev_cased == i > 1 /\ IsLetter(s[i - 1])
        IN  IF IsLetter(s[i])
            THEN IF prev_cased THEN lower_char(s[i]) ELSE upper_char(s[i])
            ELSE s[i]]

\* the text without its leading and trailing blanks
RECURSIVE Strip(_)
Strip(s) == IF s = <<>> THEN s
            ELSE IF Head(s) = " " THEN Strip(Tail(s))
            ELSE IF s[Len(s)] = " " THEN Strip(SubSeq(s, 1, Len(s) - 1))
            ELSE s

RECURSIVE DigitsValue(_)
DigitsValue(s) == IF s = <<>> THEN 0
                  ELSE 10 * DigitsValue(SubSeq(s, 1, Len(s) - 1))
                       + (IndexOf(Digits, s[Len(s)]) - 1)

\* int(text): [ok |-> FALSE] stands for the ValueError
ParseInt(s) ==
    LET t == Strip(s)
        neg == t # <<>> /\ Head(t) = "-"
        body == IF neg THEN Tail(t) ELSE t
    IN  IF body # <<>> /\ \A i \in 1..Len(body) : IsDigit(body[i])
        THEN [ok |-> TRUE, v |-> IF neg THEN 0 - DigitsValue(body) ELSE DigitsValue(body)]
        ELSE [ok |-> FALSE, v |-> 0]

\* lexicographic order of two texts by code point
RECURSIVE StrLess(_, _)
StrLess(s, t) == IF t = <<>> THEN FALSE
                 ELSE IF s = <<>> THEN TRUE
                 ELSE IF ord(Head(s)) # ord(Head(t)) THEN ord(Head(s)) < ord(Head(t))
                 ELSE StrLess(Tail(s), Tail(t))

----------------------------------------------------------------------------
(* Numbers: missing counts and float division *)

NaN == -1
NaNText == <<"nan">>

NaNF == [n |-> 0, d |-> 0]
InfF == [n |-> 1, d |-> 0]
ZeroF == [n |-> 0, d |-> 1]

RECURSIVE Gcd(_, _)
Gcd(a, b) == IF b = 0 THEN a ELSE Gcd(b, a % b)

\* the float n/d, d > 0, n >= 0
Frac(n, d) == LET g == Gcd(n, d) IN [n |-> n \div g, d |-> d \div g]

IsNaNF(x) == x.d = 0 /\ x.n = 0
IsInfF(x) == x.d = 0 /\ x.n = 1
IsFinite(x) == x.d > 0

\* x <= y on floats; every comparison with NaN is false
FLeq(x, y) == /\ ~IsNaNF(x) /\ ~IsNaNF(y)
              /\ \/ IsInfF(y)
                 \/ IsFinite(x) /\ IsFinite(y) /\ x.n * y.d <= y.n * x.d

FAdd(x, y) == IF IsNaNF(x) \/ IsNaNF(y) THEN NaNF
              ELSE IF IsInfF(x) \/ IsInfF(y) THEN InfF
              ELSE Frac(x.n * y.d + y.n * x.d, x.d * y.d)

\* x / k for an integer k > 0
FDivInt(x, k) == IF IsFinite(x) THEN Frac(x.n, x.d * k) ELSE x

\* count + count of two integer columns, NaN when either is missing
AddCounts(a, b) == IF a = NaN \/ b = NaN THEN NaN ELSE a + b

\* pandas' Series / Series on two count columns: x/0 is inf, 0/0 and any
\* division with a missing operand is NaN
TrueDivide(t, c) == IF t = NaN \/ c = NaN THEN NaNF
                    ELSE IF c = 0 THEN (IF t = 0 THEN NaNF ELSE InfF)
                    ELSE Frac(t, c)

----------------------------------------------------------------------------
(* The table: import_data and add_columns *)

Years == {2017, 2018, 2019}
SnapshotYear == 2019

\* one spreadsheet row
RawRow(name, number, year, region, stype, mailing, street, postal, card, prt, ers) ==
    [name |-> name, number |-> number, year |-> year,
     region |-> region, service_type |-> stype,
     mailing |-> mailing, street |-> street, postal |-> postal,
     cardholders |-> card, print_titles |-> prt, e_titles |-> ers]

\* index order: Library Full Name, then Library Number, then Year
KeyLess(r, q) == \/ StrLess(r.name, q.name)
                 \/ r.name = q.name /\ StrLess(r.number, q.number)
                 \/ r.name = q.name /\ r.number = q.number /\ r.year < q.year

\* set_index(...).sort_index(): the rows in index order
RECURSIVE sort_index(_)
sort_index(rows) ==
    IF rows = {} THEN <<>>
    ELSE LET first == CHOOSE r \in rows : \A q \in rows \ {r} : ~KeyLess(q, r)
         IN  <<first>> \o sort_index(rows \ {first})

\* a fill in both directions: each missing address takes the other one
ffill_addresses_both_ways(r) ==
    [r EXCEPT !.street = IF r.street = NaNText THEN r.mailing ELSE r.street,
              !.mailing = IF r.mailing = NaNText THEN r.street ELSE r.mailing]

\* fillna(method='ffill', axis=1) over the columns [Mailing Address, Street
\* Address], in that order: a missing cell takes the cell to its left
ffill_addresses(r) ==
    [r EXCEPT !.street = IF r.street = NaNText THEN r.mailing ELSE r.street]

import_data(src) == sort_index({ffill_addresses(r) : r \in src})

\* .replace(np.nan, 0) leaves every value but NaN as it is
replace_nan(x) == IF IsNaNF(x) THEN ZeroF ELSE x

add_columns_row(r) ==
    LET total == AddCounts(r.print_titles, r.e_titles)
    IN  [name |-> r.name, number |-> r.number, year |-> r.year,
         region |-> r.region, service_type |-> r.service_type,
         mailing |-> r.mailing, street |-> r.street, postal |-> r.postal,
         cardholders |-> r.cardholders, print_titles |-> r.print_titles,
         e_titles |-> r.e_titles,
         total_resources |-> total,
         resources_per_cardholder |-> replace_nan(TrueDivide(total, r.cardholders))]

add_columns(library_data) ==
    [i \in 1..Len(library_data) |-> add_columns_row(library_data[i])]

----------------------------------------------------------------------------
(* Queries on the table *)

\* data.loc[IndexSlice[:, :, year], :]
RowsOfYear(tbl, year) == LET P(r) == r.year = year IN SelectSeq(tbl, P)
\* data.loc[IndexSlice[name, :, :], :]
RowsOfName(tbl, name) == LET P(r) == r.name = name IN SelectSeq(tbl, P)
\* data.loc[IndexSlice[:, number, :], :]
RowsOfNumber(tbl, number) == LET P(r) == r.number = number IN SelectSeq(tbl, P)

NoCard == [name |-> <<>>, number |-> <<>>, year |-> 0, address |-> NaNText]

\* print_branch_info: the card of the last row of branch_df; the address is
\* N/A when a part of it is missing (the TypeError of str + float)
branch_card(branch_df) ==
    LET last == branch_df[Len(branch_df)]
    IN  [name |-> last.name, number |-> last.number, year |-> last.year,
         address |-> IF last.street = NaNText \/ last.postal = NaNText
                     THEN NaNText ELSE last.street \o <<" ">> \o last.postal]

\* the check without the length test: re.match looks at the first six
\* characters only
valid_postal_any_length(s) == /\ Len(s) >= 6
                              /\ \A i \in {1, 3, 5} : IsLetter(s[i])
                              /\ \A i \in {2, 4, 6} : IsDigit(s[i])

\* the postal-code check of library_locator
valid_postal(s) == /\ Len(s) = 6
                   /\ \A i \in {1, 3, 5} : IsLetter(s[i])
                   /\ \A i \in {2, 4, 6} : IsDigit(s[i])

PrefixLen == 3
prefix_of(postal_code) == SubSeq(postal_code, 1, PrefixLen)

\* Series.str.match('^' + prefix) on one cell: "nan" for a missing cell
str_match(cell, prefix) ==
    IF cell = NaNText THEN "nan"
    ELSE IF Len(cell) >= Len(prefix) /\ SubSeq(cell, 1, Len(prefix)) = prefix
         THEN "true" ELSE "false"

\* the boolean mask over the 2019 rows
postal_mask(tbl, prefix) ==
    LET snap == RowsOfYear(tbl, SnapshotYear)
    IN  [i \in 1..Len(snap) |-> str_match(snap[i].postal, prefix)]

\* DataFrame[mask] raises ValueError on a mask that holds a NaN
mask_raises(mask) == \E i \in 1..Len(mask) : mask[i] = "nan"

filter_by_postal(tbl, prefix) ==
    LET P(r) == str_match(r.postal, prefix) = "true"
    IN  SelectSeq(RowsOfYear(tbl, SnapshotYear), P)

Perms(seq) ==
    LET n == Len(seq)
        bij == {p \in [1..n -> 1..n] : \A i, j \in 1..n : p[i] = p[j] => i = j}
    IN  {[i \in 1..n |-> seq[p[i]]] : p \in bij}

\* sort_values('Resources per Cardholder', ascending=False)
sorted_by_resources(seq) ==
    {s \in Perms(seq) : \A i \in 1..(Len(s) - 1) :
        FLeq(s[i + 1].resources_per_cardholder, s[i].resources_per_cardholder)}

\* the cardholder sort with ascending=False
sorted_by_cardholders_descending(seq) ==
    {s \in Perms(seq) : \A i \in 1..(Len(s) - 1) :
        \/ s[i + 1].cardholders = NaN
        \/ s[i].cardholders # NaN /\ s[i + 1].cardholders <= s[i].cardholders}

\* sort_values('No. Cardholders'): ascending, the missing counts last
sorted_by_cardholders(seq) ==
    {s \in Perms(seq) : \A i \in 1..(Len(s) - 1) :
        \/ s[i + 1].cardholders = NaN
        \/ s[i].cardholders # NaN /\ s[i].cardholders <= s[i + 1].cardholders}

\* sample(frac=1): the rows in a random order
sampled(seq) == Perms(seq)

ListLimit == 5

\* the names print_nearby_branches lists: the first five
listed_names(sorted_locations) ==
    [i \in 1..(IF Len(sorted_locations) < ListLimit THEN Len(sorted_locations) ELSE ListLimit)
        |-> sorted_locations[i].name]

----------------------------------------------------------------------------
(* The archive report of access_archives *)

RECURSIVE FSum(_)
FSum(xs) == IF xs = <<>> THEN ZeroF ELSE FAdd(Head(xs), FSum(Tail(xs)))

\* the columns from the ninth onward that add_columns appends last
RecordColumns == <<"Total Resources", "Resources per Cardholder">>

\* a cell of a record column as a float
column_value(r, col) ==
    IF col = "Total Resources"
    THEN (IF r.total_resources = NaN THEN NaNF ELSE Frac(r.total_resources, 1))
    ELSE r.resources_per_cardholder

\* Series.max(): the largest value that is not NaN, NaN when there is none
column_max(rows, col) ==
    LET vals == {column_value(rows[i], col) : i \in 1..Len(rows)} \ {NaNF}
    IN  IF vals = {} THEN NaNF
        ELSE CHOOSE v \in vals : \A w \in vals : FLeq(w, v)

\* the rows the record-holder is taken from: data[data[col] == max_value]
record_rows(tbl, year, col, max_value) ==
    LET P(r) == ~IsNaNF(max_value) /\ column_value(r, col) = max_value
    IN  SelectSeq(tbl, P)

\* one line of LIBRARY RECORDS; raised stands for the IndexError of
\* .index[0] on an empty selection
record_holder(tbl, year, col) ==
    LET max_value == column_max(RowsOfYear(tbl, year), col)
        hits == record_rows(tbl, year, col, max_value)
    IN  IF hits = <<>>
        THEN [col |-> col, raised |-> TRUE, branch_name |-> <<>>, max_value |-> max_value]
        ELSE [col |-> col, raised |-> FALSE, branch_name |-> hits[1].name,
              max_value |-> max_value]

\* the record lines printed before the loop ends or raises
RECURSIVE library_records(_, _, _)
library_records(tbl, year, cols) ==
    IF cols = <<>> THEN <<>>
    ELSE LET h == record_holder(tbl, year, Head(cols))
         IN  IF h.raised THEN <<h>>
             ELSE <<h>> \o library_records(tbl, year, Tail(cols))

\* the rows pivot_table averages for one (service type, region) cell
pivot_rows(tbl, year, stype, region) ==
    LET P(r) == r.service_type = stype /\ r.region = region
    IN  SelectSeq(tbl, P)

\* the mean of the rows of a cell after the two replace() calls
cell_of(rows) ==
    LET mean == FDivInt(FSum([i \in 1..Len(rows) |-> rows[i].resources_per_cardholder]),
                        Len(rows))
    IN  IF rows = <<>> THEN [text |-> "N/A**", v |-> NaNF]
        ELSE IF mean = ZeroF THEN [text |-> "0.0*", v |-> mean]
        ELSE [text |-> "", v |-> mean]

pivot_cell(tbl, year, stype, region) == cell_of(pivot_rows(tbl, year, stype, region))

service_type_pivot(tbl, year) ==
    LET types == {tbl[i].service_type : i \in 1..Len(tbl)}
        regions == {tbl[i].region : i \in 1..Len(tbl)}
    IN  [t \in types |-> [g \in regions |-> pivot_cell(tbl, year, t, g)]]

\* describe() of the year's rows and the sum row, for the cardholder column:
\* count, min, max of the present values and their sum
described_data(tbl, year) ==
    LET rows == RowsOfYear(tbl, year)
        vals == {rows[i].cardholders : i \in 1..Len(rows)} \ {NaN}
        P(r) == r.cardholders # NaN
        present == SelectSeq(rows, P)
    IN  [count |-> Len(present),
         min |-> IF vals = {} THEN NaN ELSE CHOOSE v \in vals : \A w \in vals : v <= w,
         max |-> IF vals = {} THEN NaN ELSE CHOOSE v \in vals : \A w \in vals : w <= v,
         sum |-> FSum([i \in 1..Len(present) |-> Frac(present[i].cardholders, 1)]).n]

NoReport == [year |-> 0, printed |-> FALSE]

archive_report(tbl, year) ==
    [year |-> year, printed |-> TRUE,
     described |-> described_data(tbl, year),
     pivot |-> service_type_pivot(tbl, year),
     records |-> library_records(tbl, year, RecordColumns)]

\* the record loop ran into the IndexError
records_raise(rep) == \E i \in 1..Len(rep.records) : rep.records[i].raised

----------------------------------------------------------------------------
(* The session: frames, messages, exceptions *)

\* a frame of the call stack with the locals that are read again
Frame(fn, opt, locs, postal_code) ==
    [fn |-> fn, opt |-> opt, locs |-> locs, postal_code |-> postal_code]

PlainFrame(fn) == Frame(fn, "-", <<>>, <<>>)

Top == stack[Len(stack)]

MsgMenuInvalid == "Invalid input. Please enter a number between 1 and 4."
MsgNextInvalid == "Invalid input. Please enter again."
MsgBranchInvalid == "Invalid library name or code. Please enter again."
MsgPostalInvalid == "Please enter a valid postal code."
MsgNoLibraries == "Sorry! Could not find any libraries nearby."
MsgPrefInvalid == "Invalid input. Please enter a number between 1 and 3."
MsgSelectInvalid == "Invalid input. Please enter a number between 1 and 5."
MsgYearInvalid == "Invalid archive year. Please enter again."

\* a call: one more frame, blocked at the prompt the callee starts with
Call(frame, prompt, banner) ==
    /\ Len(stack) < MaxDepth
    /\ stack' = Append(stack, frame)
    /\ pc' = prompt
    /\ out' = banner

\* the same prompt again after a message
Reprompt(msg) == /\ out' = msg
                 /\ UNCHANGED <<stack, pc>>

\* an exception no frame handles: the traceback ends the process
Uncaught(exc) == /\ stack' = <<>>
                 /\ pc' = "crashed"
                 /\ out' = exc

\* a ValueError raised in the innermost frame, whose caller (main_menu or
\* next_user_action) made the call inside its try: the frame is dropped and
\* the caller prints its message and prompts again
RaiseValueErrorToCaller ==
    LET caller == stack[Len(stack) - 1]
    IN  /\ stack' = SubSeq(stack, 1, Len(stack) - 1)
        /\ pc' = IF caller.fn = "main_menu" THEN "main_menu" ELSE "next_action"
        /\ out' = IF caller.fn = "main_menu" THEN MsgMenuInvalid ELSE MsgNextInvalid

\* print_nearby_branches up to its prompt: the list is printed
call_print_nearby_branches(sorted_locations) ==
    /\ Call(Frame("print_nearby_branches", "-", sorted_locations, <<>>),
            "select_prompt", "Here is a list of libraries we found for you:")
    /\ listed' = listed_names(sorted_locations)

----------------------------------------------------------------------------
(* The operations *)

\* main(): build the table, create the portal, open the main menu
main ==
    /\ pc = "start"
    /\ data' = add_columns(import_data(sources))
    /\ stack' = <<PlainFrame("main"), PlainFrame("main_menu")>>
    /\ pc' = "main_menu"
    /\ out' = "MAIN MENU"
    /\ UNCHANGED <<sources, input, shown, listed, located, report>>

\* main_menu: one line at "Please select an option"
main_menu(line) ==
    /\ pc = "main_menu"
    /\ input' = line
    /\ LET user_selection == ParseInt(line)
       IN  IF user_selection.ok /\ user_selection.v = 1
           THEN Call(PlainFrame("branch_search"), "branch_prompt", "BRANCH INFORMATION SEARCH")
           ELSE IF user_selection.ok /\ user_selection.v = 2
           THEN Call(PlainFrame("library_locator"), "postal_prompt", "LIBRARY LOCATOR")
           ELSE IF user_selection.ok /\ user_selection.v = 3
           THEN Call(PlainFrame("access_archives"), "year_prompt", "ACCESS LIBRARY ARCHIVES")
           ELSE IF user_selection.ok /\ user_selection.v = 4
           THEN /\ stack' = <<>>
                /\ pc' = "quit"
                /\ out' = "Thank you for using the Ontario Public Library System Portal!"
           ELSE Reprompt(MsgMenuInvalid)
    /\ UNCHANGED <<sources, data, shown, listed, located, report>>

\* the rows of the last results taken from the table again, in index order
opt_nearby_recomputed(frame) == sort_index(Range(frame.locs))

\* what next_user_action hands to print_nearby_branches on 'b': the last of
\* its optional arguments
opt_nearby_last(frame) == frame.locs

\* next_user_action: one line at "Enter [b] to go back"
next_user_action(line) ==
    /\ pc = "next_action"
    /\ input' = line
    /\ LET current_option == Top.opt
       IN  IF line = <<"m">>
           THEN Call(PlainFrame("main_menu"), "main_menu", "MAIN MENU") /\ listed' = listed
           ELSE IF line = <<"b">> /\ current_option = "1"
           THEN Call(PlainFrame("branch_search"), "branch_prompt", "BRANCH INFORMATION SEARCH")
                /\ listed' = listed
           ELSE IF line = <<"b">> /\ current_option = "2.1"
           THEN Call(PlainFrame("library_locator"), "postal_prompt", "LIBRARY LOCATOR")
                /\ listed' = listed
           ELSE IF line = <<"b">> /\ current_option = "2.2"
           THEN call_print_nearby_branches(opt_nearby_last(Top))
           ELSE IF line = <<"b">> /\ current_option = "3"
           THEN Call(PlainFrame("access_archives"), "year_prompt", "ACCESS LIBRARY ARCHIVES")
                /\ listed' = listed
           ELSE Reprompt(MsgNextInvalid) /\ listed' = listed
    /\ UNCHANGED <<sources, data, shown, located, report>>

\* the text branch_search looks up
library_id_of(line) == str_title(line)

\* the rows branch_search finds: by name first, then by number; <<>> stands
\* for the ValueError of its else branch
find_branch(tbl, library_id) ==
    IF \E i \in 1..Len(tbl) : tbl[i].name = library_id
    THEN RowsOfName(tbl, library_id)
    ELSE IF \E i \in 1..Len(tbl) : tbl[i].number = library_id
    THEN RowsOfNumber(tbl, library_id)
    ELSE <<>>

\* a lookup that matched nothing followed by the next-action prompt
branch_not_found_moves_on ==
    Call(Frame("next_user_action", "1", <<>>, <<>>), "next_action", MsgBranchInvalid)

\* what follows a lookup that matched nothing
branch_not_found == Reprompt(MsgBranchInvalid)

\* branch_search: one line at "Please enter a library branch name or code"
branch_search(line) ==
    /\ pc = "branch_prompt"
    /\ input' = line
    /\ LET branch_data == find_branch(data, library_id_of(line))
       IN  IF branch_data # <<>>
           THEN /\ shown' = branch_card(branch_data)
                /\ Call(Frame("next_user_action", "1", <<>>, <<>>), "next_action",
                        "LIBRARY BRANCH INFORMATION")
           ELSE /\ branch_not_found
                /\ shown' = shown
    /\ UNCHANGED <<sources, data, listed, located, report>>

\* library_locator: one line at "Please enter a postal code"; an accepted
\* line is filtered on at once
library_locator(line) ==
    /\ pc = "postal_prompt"
    /\ input' = line
    /\ IF valid_postal(line)
       THEN LET postal_code == str_upper(line)
                mask == postal_mask(data, prefix_of(postal_code))
                data_by_postal_code == filter_by_postal(data, prefix_of(postal_code))
            IN  IF mask_raises(mask)
                THEN RaiseValueErrorToCaller /\ located' = located
                ELSE IF Len(data_by_postal_code) = 0
                THEN /\ Len(stack) < MaxDepth
                     /\ stack' = Append([stack EXCEPT ![Len(stack)] =
                                Frame("library_locator", "-", data_by_postal_code, postal_code)],
                            Frame("next_user_action", "2.1", <<>>, <<>>))
                     /\ pc' = "next_action"
                     /\ out' = MsgNoLibraries
                     /\ located' = data_by_postal_code
                ELSE /\ stack' = [stack EXCEPT ![Len(stack)] =
                            Frame("library_locator", "-", data_by_postal_code, postal_code)]
                     /\ pc' = "pref_prompt"
                     /\ out' = "What are you looking for today?"
                     /\ located' = data_by_postal_code
       ELSE Reprompt(MsgPostalInvalid) /\ located' = located
    /\ UNCHANGED <<sources, data, shown, listed, report>>

\* the orders the preference may give the filtered rows
orders_for(user_selection, data_by_postal_code) ==
    IF user_selection = 1 THEN sorted_by_resources(data_by_postal_code)
    ELSE IF user_selection = 2 THEN sorted_by_cardholders(data_by_postal_code)
    ELSE sampled(data_by_postal_code)

\* library_locator: one line at the preference prompt
library_locator_preference(line) ==
    /\ pc = "pref_prompt"
    /\ input' = line
    /\ LET user_selection == ParseInt(line)
       IN  IF user_selection.ok /\ user_selection.v \in {1, 2, 3}
           THEN \E sorted_locations \in orders_for(user_selection.v, Top.locs) :
                    /\ located' = sorted_locations
                    /\ call_print_nearby_branches(sorted_locations)
           ELSE Reprompt(MsgPrefInvalid) /\ UNCHANGED <<located, listed>>
    /\ UNCHANGED <<sources, data, shown, report>>

\* the branch selections the prompt takes: range(1, 6)
SelectionFirst == 1
SelectionLast == 5

\* the row a selection names; <<>> stands for the IndexError of indexing
\* past the end of the list
selected_row(sorted_locations, branch_selection) ==
    IF branch_selection <= Len(sorted_locations)
    THEN <<sorted_locations[branch_selection]>>
    ELSE <<>>

\* print_nearby_branches: one line at "Select a number to view its branch
\* information"
print_nearby_branches(line) ==
    /\ pc = "select_prompt"
    /\ input' = line
    /\ LET branch_selection == ParseInt(line)
           sorted_locations == Top.locs
       IN  IF branch_selection.ok /\ branch_selection.v \in SelectionFirst..SelectionLast
           THEN LET row == selected_row(sorted_locations, branch_selection.v)
                IN  IF row = <<>>
                    THEN Uncaught("IndexError") /\ shown' = shown
                    ELSE /\ shown' = branch_card(RowsOfName(data, row[1].name))
                         /\ Call(Frame("next_user_action", "2.2", sorted_locations, <<>>),
                                 "next_action", "LIBRARY BRANCH INFORMATION")
           ELSE Reprompt(MsgSelectInvalid) /\ shown' = shown
    /\ UNCHANGED <<sources, data, listed, located, report>>

FirstYear == 2017
LastYear == 2019

\* an archive report that keeps only the rows of the requested year in the
\* table the portal holds
access_archives_keeping_year(line) ==
    /\ pc = "year_prompt"
    /\ input' = line
    /\ LET year == ParseInt(line)
       IN  IF year.ok /\ year.v \in FirstYear..LastYear
           THEN LET rep == archive_report(data, year.v)
                IN  /\ report' = rep
                    /\ data' = RowsOfYear(data, year.v)
                    /\ IF records_raise(rep)
                       THEN Uncaught("IndexError")
                       ELSE Call(Frame("next_user_action", "3", <<>>, <<>>), "next_action",
                                 "LIBRARY RECORDS")
           ELSE Reprompt(MsgYearInvalid) /\ report' = report /\ data' = data
    /\ UNCHANGED <<sources, shown, listed, located>>

\* access_archives: one line at "Please enter a year between 2017 and 2019"
access_archives(line) ==
    /\ pc = "year_prompt"
    /\ input' = line
    /\ LET year == ParseInt(line)
       IN  IF year.ok /\ year.v \in FirstYear..LastYear
           THEN LET rep == archive_report(data, year.v)
                IN  /\ report' = rep
                    \* generate_plots shows the two figures and changes nothing
                    /\ IF records_raise(rep)
                       THEN Uncaught("IndexError")
                       ELSE Call(Frame("next_user_action", "3", <<>>, <<>>), "next_action",
                                 "LIBRARY RECORDS")
           ELSE Reprompt(MsgYearInvalid) /\ report' = report
    /\ UNCHANGED <<sources, data, shown, listed, located>>

----------------------------------------------------------------------------
(* Tables and typed lines of the bounded universes *)

Counts == 0..MaxCount
CountsOrMissing == Counts \cup {NaN}

NameA == <<"A", "b">>
NameB == <<"B", "a">>
NameK == <<"K", "a">>
NumberA == <<"K", "0", "1">>
NumberB == <<"K", "0", "2">>
NumberK == <<"K", "0", "3">>
PostalK == <<"K", "1", "A", " ", "1", "A", "1">>
PostalM == <<"M", "1", "B", " ", "1", "B", "1">>
Street == <<"1", " ", "A", "b">>

\* a branch reported in every year with every cell present
FullBranch(name, number, postal) ==
    {RawRow(name, number, y, "East", "Public", Street, Street, postal, 2, 1, 1) : y \in Years}

\* the branch of NameA in every year, and the branches of NameB and NameK in
\* 2019 with any postal code and cardholder count
SessionTables ==
    {FullBranch(NameA, NumberA, PostalK)
       \cup {RawRow(NameB, NumberB, 2019, "East", "Public", Street, Street, pb, cb, 1, 1)}
       \cup third :
       pb \in {PostalK, PostalM, NaNText}, cb \in CountsOrMissing,
       third \in {{}} \cup {{RawRow(NameK, NumberK, 2019, "West", "County", Street, NaNText,
                                    PostalK, ck, 2, 0)} : ck \in {NaN, 1}}}

MenuLines == {<<"1">>, <<"2">>, <<"3">>, <<"4">>, <<"5">>, <<"x">>}
NextLines == {<<"m">>, <<"b">>, <<"x">>}
BranchLines == {NameA, str_upper(NameA), NumberB, <<"k", "0", "3">>, <<"x">>}
PostalLines == {<<"k", "1", "a", "1", "a", "1">>, <<"M", "1", "B", "1", "B", "1">>,
                <<"X", "1", "X", "1", "X", "1">>, <<"1", "K", "1", "A", "1", "A">>,
                <<"K", "1", "A">>}
PrefLines == {<<"1">>, <<"2">>, <<"3">>, <<"4">>, <<"x">>}
SelectLines == {<<"0">>, <<"1">>, <<"2">>, <<"3">>, <<"5">>, <<"6">>, <<"x">>}
YearLines == {<<"2", "0", "1", "6">>, <<"2", "0", "1", "7">>, <<"2", "0", "1", "9">>,
              <<"2", "0", "2", "0">>, <<"x">>}

----------------------------------------------------------------------------
(* The session specification *)

InitWith(tables) ==
    /\ sources \in tables
    /\ data = <<>>
    /\ stack = <<>>
    /\ pc = "start"
    /\ input = <<>>
    /\ out = ""
    /\ shown = NoCard
    /\ listed = <<>>
    /\ located = <<>>
    /\ report = NoReport

Init == InitWith(SessionTables)

Next ==
    \/ main
    \/ \E line \in MenuLines : main_menu(line)
    \/ \E line \in NextLines : next_user_action(line)
    \/ \E line \in BranchLines : branch_search(line)
    \/ \E line \in PostalLines : library_locator(line)
    \/ \E line \in PrefLines : library_locator_preference(line)
    \/ \E line \in SelectLines : print_nearby_branches(line)
    \/ \E line \in YearLines : access_archives(line)

Spec == Init /\ [][Next]_vars

----------------------------------------------------------------------------
(* add_columns over every combination of missing, zero and positive cells *)

ColumnsTables ==
    {FullBranch(NameA, NumberA, PostalK)
       \cup {RawRow(NameB, NumberB, 2019, "East", "Public", Street, Street, PostalK, c, p, e)} :
       c \in CountsOrMissing, p \in CountsOrMissing, e \in CountsOrMissing}

InitColumns == InitWith(ColumnsTables)
NextColumns == main \/ \E line \in {<<"4">>, <<"x">>} : main_menu(line)
SpecColumns == InitColumns /\ [][NextColumns]_vars

\* C1: in every record of the table add_columns returns, Total Resources is
\* the sum of the print and e-resource titles, Resources per Cardholder is
\* exactly 0 when the cardholder count is 0 or missing, and Total Resources
\* divided by the cardholder count otherwise.
C1_ResourcesPerCardholder ==
    \A i \in 1..Len(data) :
        LET r == data[i]
        IN  /\ r.total_resources = AddCounts(r.print_titles, r.e_titles)
            /\ IF r.cardholders = 0 \/ r.cardholders = NaN
               THEN r.resources_per_cardholder = ZeroF
               ELSE r.total_resources # NaN =>
                      r.resources_per_cardholder = Frac(r.total_resources, r.cardholders)

----------------------------------------------------------------------------
(* access_archives over tables whose years and branches differ *)

ArchiveTables ==
    {{RawRow(NameA, NumberA, 2017, "East", "Public", Street, Street, PostalK, c1, p1, 0),
      RawRow(NameA, NumberA, 2018, "East", "Public", Street, Street, PostalK, 1, 1, 0),
      RawRow(NameA, NumberA, 2019, "East", t2, Street, Street, PostalK, c2, p2, 0),
      RawRow(NameB, NumberB, 2019, g3, "Public", Street, Street, PostalM, c3, p3, 0)} :
       c1 \in {0, 1}, p1 \in CountsOrMissing,
       c2 \in {1, NaN}, p2 \in CountsOrMissing, t2 \in {"Public", "County"},
       c3 \in Counts, p3 \in Counts, g3 \in {"East", "West"}}

InitArchive == InitWith(ArchiveTables)
NextArchive == \/ main
               \/ main_menu(<<"3">>)
               \/ \E line \in YearLines : access_archives(line)
SpecArchive == InitArchive /\ [][NextArchive]_vars

\* C2: for the year of the report and every record column, the branch reported
\* as record-holder has a row in that year whose value is the maximum of the
\* column over the rows of that year, and it is the first such row of the year
\* in index order.
C2_RecordHolderOfYear ==
    report.printed =>
        \A k \in 1..Len(report.records) :
            LET h == report.records[k]
                rows == RowsOfYear(data, report.year)
                best(i) == column_value(rows[i], h.col) = column_max(rows, h.col)
            IN  ~h.raised =>
                  \E i \in 1..Len(rows) :
                      /\ rows[i].name = h.branch_name
                      /\ best(i)
                      /\ \A j \in 1..(i - 1) : ~best(j)

\* C8: every cell of the pivot shown for a year is the mean of Resources per
\* Cardholder over exactly the rows of that year with the cell's service type
\* and region.
C8_PivotOfYear ==
    report.printed =>
        \A t \in DOMAIN report.pivot : \A g \in DOMAIN report.pivot[t] :
            LET P(r) == r.service_type = t /\ r.region = g
            IN  report.pivot[t][g] = cell_of(SelectSeq(RowsOfYear(data, report.year), P))

----------------------------------------------------------------------------
(* Re-prompting *)

Min(a, b) == IF a < b THEN a ELSE b

\* the two texts are equal up to the case of their letters
SameIgnoringCase(s, t) ==
    Len(s) = Len(t) /\ \A i \in 1..Len(s) : lower_char(s[i]) = lower_char(t[i])

\* letter, digit, letter, digit, letter, digit
PostalPattern(s) == /\ Len(s) = 6
                    /\ IsLetter(s[1]) /\ IsDigit(s[2]) /\ IsLetter(s[3])
                    /\ IsDigit(s[4]) /\ IsLetter(s[5]) /\ IsDigit(s[6])

IntIn(line, lo, hi) == ParseInt(line).ok /\ ParseInt(line).v \in lo..hi

\* the line does not parse or is not on offer at the prompt the session is at
NotOnOffer(line) ==
    \/ pc = "main_menu" /\ ~IntIn(line, 1, 4)
    \/ pc = "branch_prompt"
         /\ \A i \in 1..Len(data) : /\ ~SameIgnoringCase(line, data[i].name)
                                    /\ ~SameIgnoringCase(line, data[i].number)
    \/ pc = "postal_prompt" /\ ~PostalPattern(line)
    \/ pc = "pref_prompt" /\ ~IntIn(line, 1, 3)
    \/ pc = "select_prompt" /\ ~IntIn(line, 1, Min(ListLimit, Len(Top.locs)))
    \/ pc = "year_prompt" /\ ~IntIn(line, FirstYear, LastYear)
    \/ pc = "next_action" /\ line \notin {<<"m">>, <<"b">>}

\* C3: at every prompt a line that does not parse or is not on offer makes
\* the same prompt come again with nothing else of the session changed; the
\* session neither ends nor fails on it.
C3_InvalidInputReprompts ==
    [][NotOnOffer(input') =>
         /\ pc' = pc
         /\ UNCHANGED <<data, stack, shown, listed, located, report>>]_vars

----------------------------------------------------------------------------
(* branch_search over every name of a small alphabet *)

NameAlphabet == {"A", "a", " "}

Texts(alphabet, n) == UNION {[1..k -> alphabet] : k \in 1..n}

NameUniverse == Texts(NameAlphabet, MaxNameLen)

\* a branch of any name reported in any years, next to the branch of NameB
SearchTables ==
    {FullBranch(NameB, NumberB, PostalM)
       \cup {RawRow(name, NumberA, y, "East", "Public", Street, Street, PostalK, 1, 1, 1) :
               y \in ys} :
       name \in NameUniverse, ys \in (SUBSET Years) \ {{}}}

SearchLines == NameUniverse \cup {NumberA, <<"k", "0", "1">>, NumberB, <<"x">>}

InitSearch == InitWith(SearchTables)
NextSearch == \/ main
              \/ main_menu(<<"1">>)
              \/ \E line \in SearchLines : branch_search(line)
SpecSearch == InitSearch /\ [][NextSearch]_vars

\* the most recent year a branch is reported in
latest_year(tbl, name, number) ==
    LET ys == {tbl[i].year : i \in {j \in 1..Len(tbl) :
                  tbl[j].name = name /\ tbl[j].number = number}}
    IN  CHOOSE y \in ys : \A z \in ys : z <= y

\* C4: a line that is a branch's own full name or library number, in any
\* upper/lower-case variant, makes branch_search find the branch, and the card
\* shown has that branch's name, number and most recent year.
C4_BranchSearchRoundTrip ==
    [][pc = "branch_prompt" =>
         \A i \in 1..Len(data) :
             (SameIgnoringCase(input', data[i].name)
                 \/ SameIgnoringCase(input', data[i].number)) =>
               /\ pc' = "next_action"
               /\ shown'.name = data[i].name
               /\ shown'.number = data[i].number
               /\ shown'.year = latest_year(data, data[i].name, data[i].number)]_vars

----------------------------------------------------------------------------
(* library_locator *)

\* C5: after an accepted postal code the sequence library_locator computed
\* holds exactly the 2019 records whose postal code starts with the first
\* three characters of the uppercased line, and the session goes on without
\* an error (to the preference prompt, or to the next-action prompt when the
\* sequence is empty).
C5_NearbyIsPrefixFilter ==
    [][(pc = "postal_prompt" /\ PostalPattern(input')) =>
         LET prefix == SubSeq(str_upper(input'), 1, 3)
             has_prefix(r) == /\ r.year = 2019
                              /\ r.postal # NaNText
                              /\ Len(r.postal) >= 3
                              /\ SubSeq(r.postal, 1, 3) = prefix
         IN  /\ \A i \in 1..Len(located') : has_prefix(located'[i])
             /\ \A i \in 1..Len(data) :
                    has_prefix(data[i]) => \E j \in 1..Len(located') : located'[j] = data[i]
             /\ pc' = IF located' = <<>> THEN "next_action" ELSE "pref_prompt"]_vars


Count(seq, x) == Cardinality({i \in 1..Len(seq) : seq[i] = x})

\* no record lost, none duplicated
IsPermutation(s, t) ==
    /\ Len(s) = Len(t)
    /\ \A x \in Range(s) \cup Range(t) : Count(s, x) = Count(t, x)

Adjacent(s, R(_, _)) == \A i \in 1..(Len(s) - 1) : R(s[i], s[i + 1])

\* a <= b on counts; no comparison with a missing count is true
CountLeq(a, b) == a # NaN /\ b # NaN /\ a <= b

\* the step in which library_locator orders the filtered records
PreferenceStep == pc = "pref_prompt" /\ pc' = "select_prompt"

\* the original wording of C6: preference 2 puts every adjacent pair in
\* non-decreasing cardholder count order.
C6_EveryPairNonDecreasing ==
    [][(PreferenceStep /\ ParseInt(input').v = 2) =>
         LET R(a, b) == CountLeq(a.cardholders, b.cardholders)
         IN  Adjacent(located', R)]_vars

\* C6: the nearby-branches sequence is a permutation of the filtered 2019
\* records; with preference 1 every adjacent pair is in non-increasing
\* Resources per Cardholder order; with preference 2 every adjacent pair of
\* records with a cardholder count is in non-decreasing count order and the
\* records without a count come last; with preference 3 any order.
C6_OrderedByPreference ==
    [][PreferenceStep =>
         LET byResources(a, b) ==
                 FLeq(b.resources_per_cardholder, a.resources_per_cardholder)
             byCardholders(a, b) ==
                 \/ b.cardholders = NaN
                 \/ CountLeq(a.cardholders, b.cardholders)
         IN  /\ IsPermutation(located', located)
             /\ Top'.locs = located'
             /\ ParseInt(input').v = 1 => Adjacent(located', byResources)
             /\ ParseInt(input').v = 2 => Adjacent(located', byCardholders)]_vars

\* three records were ordered by cardholder count, one of them without a count
C6_Witness ==
    /\ pc = "select_prompt"
    /\ input = <<"2">>
    /\ Len(located) = 3
    /\ located[1].cardholders # NaN
    /\ located[1].cardholders < located[2].cardholders
    /\ located[3].cardholders = NaN

----------------------------------------------------------------------------
(* The postal-code prompt over every short text of a small alphabet *)

\* every text over {k, 1} up to the longest length, the six-character texts
\* over {k, A, 1} of the accepted form, and those with one blank in them
PostalUniverse ==
    LET accepted == {t \in [1..6 -> {"k", "A", "1"}] : PostalPattern(t)}
    IN  Texts({"k", "1"}, MaxPostalLen) \cup accepted
          \cup {[s EXCEPT ![i] = " "] : s \in accepted, i \in 1..6}

\* a table with every postal code present and one with a 2019 code missing
PostalTables ==
    {FullBranch(NameA, NumberA, PostalK) \cup FullBranch(NameB, NumberB, PostalM),
     FullBranch(NameA, NumberA, PostalK)
       \cup {RawRow(NameB, NumberB, 2019, "East", "Public", Street, Street, NaNText, 1, 1, 1)}}

InitPostal == InitWith(PostalTables)
NextPostal == \/ main
              \/ main_menu(<<"2">>)
              \/ \E line \in PostalUniverse : library_locator(line)
SpecPostal == InitPostal /\ [][NextPostal]_vars

\* some 2019 record has no postal code: the filter of library_locator raises
SnapshotPostalMissing ==
    \E i \in 1..Len(data) : data[i].year = 2019 /\ data[i].postal = NaNText

\* C7: library_locator accepts a line exactly when it is six characters,
\* letter digit letter digit letter digit in either case; it then works with
\* the uppercased line and filters on its first three characters; any other
\* line brings the postal-code prompt again.
C7_PostalCodeAccepted ==
    [][pc = "postal_prompt" =>
         IF PostalPattern(input')
         THEN LET frame == stack'[Len(stack)]
                  P(r) == r.year = 2019 /\ SubSeq(r.postal, 1, 3) = SubSeq(frame.postal_code, 1, 3)
              IN  /\ out' # MsgPostalInvalid
                  /\ IF SnapshotPostalMissing
                     THEN pc' \in {"main_menu", "next_action"}
                     ELSE /\ pc' \in {"pref_prompt", "next_action"}
                          /\ frame.fn = "library_locator"
                          /\ frame.postal_code = str_upper(input')
                          /\ \A i \in 1..6 : ~IsLower(frame.postal_code[i])
                          /\ located' = SelectSeq(data, P)
         ELSE /\ pc' = "postal_prompt"
              /\ out' = MsgPostalInvalid
              /\ UNCHANGED <<stack, located>>]_vars

\* the lowercase line k1A1k1 was accepted and is used as K1A1K1
C7_Witness ==
    /\ pc = "pref_prompt"
    /\ input = <<"k", "1", "A", "1", "k", "1">>
    /\ Top.postal_code = <<"K", "1", "A", "1", "K", "1">>
    /\ located # <<>>

----------------------------------------------------------------------------
(* Lookups that match nothing, and the next-action prompt *)

\* the original wording of C9: whenever a lookup has matched nothing, the
\* session is at the next-action prompt.
C9_NothingFoundMovesOn ==
    out \in {MsgBranchInvalid, MsgNoLibraries} => pc = "next_action"

\* no 2019 record has a postal code that starts with the prefix of the line
NoBranchNearby(line) ==
    \A i \in 1..Len(data) :
        ~(/\ data[i].year = 2019
          /\ data[i].postal # NaNText
          /\ Len(data[i].postal) >= 3
          /\ SubSeq(data[i].postal, 1, 3) = SubSeq(str_upper(line), 1, 3))

\* C9: a postal prefix with no 2019 branch brings the no-libraries message
\* and the next-action prompt, from which 'm' opens the main menu and 'b' the
\* locator (when a 2019 record has no postal code the lookup fails instead
\* and the prompt of the caller comes again with its invalid-input message);
\* a branch identifier that matches no name or number brings the message and
\* the branch prompt again.
C9_NothingFound ==
    [][/\ (pc = "postal_prompt" /\ PostalPattern(input') /\ NoBranchNearby(input')) =>
             IF SnapshotPostalMissing
             THEN /\ stack' = SubSeq(stack, 1, Len(stack) - 1)
                  /\ \/ pc' = "main_menu" /\ out' = MsgMenuInvalid
                     \/ pc' = "next_action" /\ out' = MsgNextInvalid
             ELSE pc' = "next_action" /\ out' = MsgNoLibraries /\ Top'.opt = "2.1"
       /\ out' = MsgNoLibraries => (pc' = "next_action" /\ Top'.opt = "2.1")
       /\ (pc = "next_action" /\ Top.opt = "2.1" /\ input' = <<"m">>) => pc' = "main_menu"
       /\ (pc = "next_action" /\ Top.opt = "2.1" /\ input' = <<"b">>) => pc' = "postal_prompt"
       /\ (pc = "branch_prompt" /\ NotOnOffer(input')) =>
             (pc' = "branch_prompt" /\ out' = MsgBranchInvalid /\ stack' = stack)]_vars

\* a branch identifier matched nothing and the branch prompt is up again
C9_Witness ==
    /\ pc = "branch_prompt"
    /\ input = <<"x">>
    /\ out = MsgBranchInvalid

\* C10: 'b' at the next-action prompt opens the action the prompt was reached
\* from at that action's first prompt, except after locator results, where it
\* lists the sequence the last locator run computed, in that order, and
\* computes nothing again.
C10_RepeatAction ==
    [][(pc = "next_action" /\ input' = <<"b">>) =>
         /\ Top.opt = "1" => (pc' = "branch_prompt" /\ Top'.fn = "branch_search")
         /\ Top.opt = "2.1" => (pc' = "postal_prompt" /\ Top'.fn = "library_locator")
         /\ Top.opt = "3" => (pc' = "year_prompt" /\ Top'.fn = "access_archives")
         /\ Top.opt = "2.2" =>
              /\ pc' = "select_prompt"
              /\ Top'.fn = "print_nearby_branches"
              /\ Top'.locs = located
              /\ listed' = [i \in 1..Min(ListLimit, Len(located)) |-> located[i].name]
              /\ located' = located]_vars

\* locator results that are not in index order were listed again on 'b'
C10_Witness ==
    /\ pc = "select_prompt"
    /\ input = <<"b">>
    /\ Len(located) = 3
    /\ listed = <<NameK, NameB, NameA>>

----------------------------------------------------------------------------
(* import_data over rows whose two address cells are present or missing *)

\* addresses that differ from row to row and from column to column
MailingOf(y) == <<"P", "O", " ", IF y = 2017 THEN "7" ELSE IF y = 2018 THEN "8" ELSE "9">>
StreetOf(y) == <<IF y = 2017 THEN "7" ELSE IF y = 2018 THEN "8" ELSE "9", " ", "S", "t">>
MailingB == <<"P", "O", " ", "B">>
StreetB == <<"2", " ", "S", "t">>

ImportTables ==
    {{RawRow(NameA, NumberA, 2017, "East", "Public", m1, s1, PostalK, 1, 1, 0),
      RawRow(NameA, NumberA, 2018, "East", "Public", m2, s2, PostalK, 1, 1, 0),
      RawRow(NameA, NumberA, 2019, "East", "Public", m3, s3, PostalK, 1, 1, 0),
      RawRow(NameB, NumberB, 2019, "East", "Public", m4, s4, PostalM, 1, 1, 0)} :
       m1 \in {NaNText, MailingOf(2017)}, s1 \in {NaNText, StreetOf(2017)},
       m2 \in {NaNText, MailingOf(2018)}, s2 \in {NaNText, StreetOf(2018)},
       m3 \in {NaNText, MailingOf(2019)}, s3 \in {NaNText, StreetOf(2019)},
       m4 \in {NaNText, MailingB}, s4 \in {NaNText, StreetB}}

InitImport == InitWith(ImportTables)
NextImport == main \/ \E line \in {<<"4">>, <<"x">>} : main_menu(line)
SpecImport == InitImport /\ [][NextImport]_vars

\* C11 as stated: after import_data, in every row where exactly one of Street
\* Address and Mailing Address was absent in the source row, the absent one
\* holds the value of the other, in either direction; a field that was present
\* is unchanged.
C11_FilledBothWays ==
    pc # "start" =>
        \A i \in 1..Len(data) :
            LET r == data[i]
                s == CHOOSE q \in sources :
                         q.name = r.name /\ q.number = r.number /\ q.year = r.year
            IN  /\ s.street = NaNText /\ s.mailing # NaNText => r.street = s.mailing
                /\ s.mailing = NaNText /\ s.street # NaNText => r.mailing = s.street
                /\ s.street # NaNText => r.street = s.street
                /\ s.mailing # NaNText => r.mailing = s.mailing

\* C11: after import_data, in every row of the merged table, Street Address
\* holds the source row's Street Address when that was present and the source
\* row's own Mailing Address when it was absent (absent when both were);
\* Mailing Address is the source row's Mailing Address, present or absent, and
\* is never filled from Street Address; no value comes from another row.
C11_StreetFilledFromMailing ==
    pc # "start" =>
        /\ Len(data) = Cardinality(sources)
        /\ \A i \in 1..Len(data) :
              LET r == data[i]
                  s == CHOOSE q \in sources :
                           q.name = r.name /\ q.number = r.number /\ q.year = r.year
              IN  /\ r.street = IF s.street = NaNText THEN s.mailing ELSE s.street
                  /\ r.mailing = s.mailing

\* a table was imported in which one row lacked only its Street Address, which
\* now holds that row's Mailing Address, and another row lacked only its
\* Mailing Address, which is still absent
C11_Witness ==
    /\ pc = "main_menu"
    /\ \E i, j \in 1..Len(data) :
          /\ \E s \in sources : /\ s.name = data[i].name /\ s.year = data[i].year
                                /\ s.street = NaNText /\ s.mailing # NaNText
                                /\ data[i].street = s.mailing
          /\ \E s \in sources : /\ s.name = data[j].name /\ s.year = data[j].year
                                /\ s.mailing = NaNText /\ s.street # NaNText
                                /\ data[j].mailing = NaNText
                                /\ data[j].street = s.street

----------------------------------------------------------------------------
(* The table over the session *)

\* C12: the spreadsheets are not written and, once main has built the merged
\* table, no session operation (branch search, locator and preference,
\* nearby-branch selection, archive report, navigation, an error) changes it,
\* row for row and value for value; every archive report printed for a year
\* is the report computed from the table the session started with, so it is
\* the same each time that year is requested.
C12_TableNeverMutated ==
    [][/\ sources' = sources
       /\ pc # "start" => data' = data
       /\ report'.printed =>
             report' = archive_report(add_columns(import_data(sources)), report'.year)]_vars

\* the archive report was printed twice in one session (two next-action
\* prompts of option 3 are on the stack) and the table is still the one the
\* session started with
C12_Witness ==
    /\ pc = "next_action"
    /\ report.printed
    /\ Cardinality({i \in 1..Len(stack) :
                       stack[i].fn = "next_user_action" /\ stack[i].opt = "3"}) = 2
    /\ data = add_columns(import_data(sources))
    /\ Len(data) > 0

----------------------------------------------------------------------------
(* The call stack over the session *)

\* C13: navigation is by nested calls that never return: every accepted
\* main-menu selection (1, 2 or 3) and every accepted 'm' or 'b' at the
\* next-action prompt adds at least one frame to the call stack, and no frame
\* is removed while the session runs (until it quits or the process ends), so
\* the stack depth is non-decreasing.
C13_StackNeverShrinks ==
    [][/\ pc' \notin {"quit", "crashed"} => Len(stack') >= Len(stack)
       /\ pc = "main_menu" /\ IntIn(input', 1, 3) => Len(stack') > Len(stack)
       /\ pc = "next_action" /\ input' \in {<<"m">>, <<"b">>} =>
             Len(stack') > Len(stack)]_vars

====
